---- MODULE Spec2Model ----
(***************************************************************************)
(* Mac Clipper (src/script.py): the clipboard history kept by              *)
(* ClipboardManager (items, max_items, the pinned_clips.json file, the     *)
(* list widget), the polling loop of ClipboardWatcher, the thread and the  *)
(* event-tap callback of GlobalHotkeyListener, and the slots of            *)
(* ClipboardManager that start, stop and answer the listener.              *)
(*                                                                         *)
(* Python strings are modelled as sequences of tokens: one token per       *)
(* character of clipboard text, one token for each of the two literal      *)
(* prefixes "text:" and "image:".  The empty string is <<>>.               *)
(***************************************************************************)
EXTENDS Integers, Sequences, FiniteSets, TLC

----------------------------------------------------------------------------
(* Bounds of the model *)

\* max_items ranges over 1..MaxItemsCap (the preferences spin box offers
\* 10..200; the model scales the range down)
MaxItemsCap == 3

\* the watcher takes at most MaxSamples samples in SpecWatcher
MaxSamples == 3

\* at most MaxListeners GlobalHotkeyListener objects are created in one run
MaxListeners == 2

\* at most MaxActivated `activated` events wait in the queue
MaxActivated == 2

\* the clock of SpecToggle advances at most MaxTicks times
MaxTicks == 6

\* at most MaxPending `changed` events wait in the queue of SpecEvents
MaxPending == 2

----------------------------------------------------------------------------
(* Inputs *)

\* values of datetime.now().strftime("%H:%M")
Times == {"09:00", "09:01"}

\* clipboard.text() values: raw text, possibly padded with blanks
Texts == { <<>>, <<" ">>, <<"a">>, <<" ", "a">>, <<"b", " ">> }

\* texts copied in the store specification (no padding)
StoreTexts == { <<"a">>, <<"b">>, <<"c">> }

\* texts copied in the scenario specification: "a" .. "e"
ScenarioTexts == { <<"a">>, <<"b">>, <<"c">>, <<"d">>, <<"e">> }

\* clipboard.image() values; NullImage is the QImage for which isNull()
NullImage == "null"
Images == { NullImage, "img1" }

\* a snapshot of the system clipboard
Snapshot(image, text) == [image |-> image, text |-> text]

WatcherSnapshots == { Snapshot(i, t) : i \in Images, t \in Texts }
StoreSnapshots == { Snapshot(NullImage, t) : t \in StoreTexts }
ScenarioSnapshots == { Snapshot(NullImage, t) : t \in ScenarioTexts }

----------------------------------------------------------------------------
(* Pure helpers *)

\* variant of reversed() that keeps the order
ReverseKeepsOrder(s) == s

\* reversed(s)
Reverse(s) == [i \in 1..Len(s) |-> s[Len(s) + 1 - i]]

\* str.strip(): drop leading and trailing whitespace
RECURSIVE LStrip(_)
LStrip(s) == IF s # <<>> /\ Head(s) = " " THEN LStrip(Tail(s)) ELSE s

Strip(s) == Reverse(LStrip(Reverse(LStrip(s))))

\* imageToBuffer: the PNG bytes of an image
imageToBuffer(image) == <<"PNG", image>>

\* base64.b64encode(buffer).decode()
b64encode(buffer) == <<"b64">> \o buffer

\* str.startswith
StartsWith(s, prefix) == Len(s) >= 1 /\ s[1] = prefix

\* variant of lines 191-201 that looks at the text first
SampleItemTextFirst(snap) ==
    LET text == Strip(snap.text)
    IN  IF text # <<>> THEN <<"text:">> \o text
        ELSE IF snap.image # NullImage
             THEN <<"image:">> \o b64encode(imageToBuffer(snap.image))
             ELSE <<>>

\* ClipboardWatcher.run, lines 191-201: the item of one sample
SampleItem(snap) ==
    IF snap.image # NullImage
    THEN <<"image:">> \o b64encode(imageToBuffer(snap.image))
    ELSE LET text == Strip(snap.text)
         IN  IF text # <<>> THEN <<"text:">> \o text ELSE <<>>

\* variant of line 202 without the comparison with last_content
ShouldEmitNoDedup(item, lastc) == item # <<>>

\* ClipboardWatcher.run, line 202: is `changed` emitted for this sample
ShouldEmit(item, lastc) == item # <<>> /\ item # lastc

\* ClipboardWatcher.run, lines 204-209: the dict carried by `changed`
MakeClip(item, t) ==
    [type |-> IF StartsWith(item, "image:") THEN "image" ELSE "text",
     data |-> item,
     time |-> t]

\* clip.get("pinned", False)
GetPinned(clip) == IF "pinned" \in DOMAIN clip THEN clip.pinned ELSE FALSE

\* clip["pinned"] = b
SetPinned(clip, b) ==
    [type |-> clip.type, data |-> clip.data, time |-> clip.time, pinned |-> b]

IsPinned(clip) == GetPinned(clip)
IsUnpinned(clip) == ~GetPinned(clip)

\* [item for item in items if item.get("pinned", False)]
PinnedOf(its) == SelectSeq(its, IsPinned)

\* [item for item in items if not item.get("pinned", False)]
UnpinnedOf(its) == SelectSeq(its, IsUnpinned)

\* variant of the membership test that looks at unpinned entries only
HasDataUnpinnedOnly(its, data) ==
    \E i \in 1..Len(its) : its[i].data = data /\ ~GetPinned(its[i])

\* any(item["data"] == data for item in items)
HasData(its, data) == \E i \in 1..Len(its) : its[i].data = data

\* list.remove(x): removes the first element equal to x
Remove(its, x) ==
    LET idx == CHOOSE i \in 1..Len(its) :
                   its[i] = x /\ \A j \in 1..(i - 1) : its[j] # x
    IN  SubSeq(its, 1, idx - 1) \o SubSeq(its, idx + 1, Len(its))

\* variant of line 294 that lets the eviction take pinned entries too
EvictCandidatesAnyEntry(ins) == ins

\* line 294: the entries the eviction may remove
EvictCandidates(ins) == UnpinnedOf(ins)

\* lines 296-298: for item in reversed(unpinned): if len > max: remove
RECURSIVE EvictLoop(_, _, _)
EvictLoop(its, rest, max) ==
    IF rest = <<>> THEN its
    ELSE EvictLoop(IF Len(its) > max THEN Remove(its, Head(rest)) ELSE its,
                   Tail(rest), max)

\* variant of lines 292-298 that takes the candidates before the insertion
InsertAndEvictOldOnly(its, max, clip) ==
    LET ins == <<clip>> \o its
        unpinned == EvictCandidates(its)
    IN  IF Len(ins) > max
        THEN IF Len(unpinned) > max - Len(PinnedOf(ins))
             THEN EvictLoop(ins, Reverse(unpinned), max)
             ELSE ins
        ELSE ins

\* lines 292-298: insert at the front, then evict
InsertAndEvict(its, max, clip) ==
    LET ins == <<clip>> \o its
        unpinned == EvictCandidates(ins)
    IN  IF Len(ins) > max
        THEN IF Len(unpinned) > max - Len(PinnedOf(ins))
             THEN EvictLoop(ins, Reverse(unpinned), max)
             ELSE ins
        ELSE ins

\* variant of lines 287-290 without the duplicate check of line 289
IsIgnoredEmptyOnly(its, clip) == clip.data = <<>>

\* lines 287-290: the two early returns
IsIgnored(its, clip) == clip.data = <<>> \/ HasData(its, clip.data)

\* items after handle_clipboard_change(clip)
HandleResult(its, max, clip) ==
    IF IsIgnored(its, clip) THEN its ELSE InsertAndEvict(its, max, clip)

\* variant of line 703 that pins instead of toggling
TogglePinResultAlwaysPins(its, data) ==
    IF HasData(its, data)
    THEN LET idx == CHOOSE i \in 1..Len(its) :
                        its[i].data = data
                        /\ \A j \in 1..(i - 1) : its[j].data # data
         IN  [its EXCEPT ![idx] = SetPinned(@, TRUE)]
    ELSE its

\* toggle_pin, lines 701-704: flip the first clip whose data matches
TogglePinResult(its, data) ==
    IF HasData(its, data)
    THEN LET idx == CHOOSE i \in 1..Len(its) :
                        its[i].data = data
                        /\ \A j \in 1..(i - 1) : its[j].data # data
         IN  [its EXCEPT ![idx] = SetPinned(@, ~GetPinned(@))]
    ELSE its

\* delete_item, line 709
IsNotData(data, clip) == clip.data # data
DeleteResult(its, data) ==
    SelectSeq(its, LAMBDA clip : IsNotData(data, clip))

\* variant of line 611 that keeps storage order
SortedItemsStorageOrder(its) == its

\* update_list, lines 609-611: the display order
SortedItems(its) == PinnedOf(its) \o UnpinnedOf(its)

\* update_list: the UserRole data of the rows of the list widget; an empty
\* history shows one credits row that carries no data
ListRows(its) ==
    IF its = <<>> THEN << <<>> >>
    ELSE [i \in 1..Len(its) |-> SortedItems(its)[i].data]

----------------------------------------------------------------------------
(* pinned_clips.json *)

BoolToJson(b) == IF b THEN "true" ELSE "false"
JsonToBool(tok) == tok = "true"

\* json.dump of one clip: its keys in insertion order
DumpClip(clip) ==
    << <<"type", clip.type>>, <<"data", clip.data>>, <<"time", clip.time>> >>
    \o (IF "pinned" \in DOMAIN clip
        THEN << <<"pinned", BoolToJson(clip.pinned)>> >>
        ELSE <<>>)

\* json.load of one object
LoadClip(obj) ==
    IF Len(obj) = 4
    THEN [type |-> obj[1][2], data |-> obj[2][2], time |-> obj[3][2],
          pinned |-> JsonToBool(obj[4][2])]
    ELSE [type |-> obj[1][2], data |-> obj[2][2], time |-> obj[3][2]]

JsonDump(its) == [i \in 1..Len(its) |-> DumpClip(its[i])]
JsonLoad(text) == [i \in 1..Len(text) |-> LoadClip(text[i])]

\* the file does not exist before the first save_pinned
MissingFile == [exists |-> FALSE, text |-> <<>>]

\* variant of line 735 that writes every entry
SavedFileAllEntries(its) == [exists |-> TRUE, text |-> JsonDump(its)]

\* save_pinned, lines 734-737
SavedFile(its) == [exists |-> TRUE, text |-> JsonDump(PinnedOf(its))]

\* load_pinned, lines 739-746
LoadedItems(file) == IF file.exists THEN JsonLoad(file.text) ELSE <<>>

----------------------------------------------------------------------------
(* State *)

VARIABLES
    items,          \* ClipboardManager.items
    max_items,      \* ClipboardManager.max_items
    pinned_file,    \* ~/pinned_clips.json
    list,           \* the rows of ClipboardManager.list (their UserRole data)
    clipboard,      \* the system clipboard
    last_content,   \* ClipboardWatcher.last_content
    pending,        \* `changed` events emitted and not yet handled
    sampleLog,      \* history: the item of every sample taken
    emitLog,        \* history: every `changed` event emitted
    last            \* history: the last operation of ClipboardManager

VARIABLES
    config,         \* ClipboardManager.config["hotkey"]
    listeners,      \* every GlobalHotkeyListener created, oldest first; the
                    \* last one is ClipboardManager.hotkey_listener
    taps,           \* the listeners whose event tap exists in the system
    main_pc,        \* where the main thread is
    app,            \* the process: "running", "quit", "aborted"
    tap_ok,         \* would CGEventTapCreate return a tap now
    ax_ok,          \* would the accessibility query answer true now
    activated,      \* `activated` events emitted and not yet handled
    watcher_pc,     \* the ClipboardWatcher thread
    cb,             \* history: the last call of hotkey_callback
    visible,        \* ClipboardManager.isVisible()
    last_toggle_time, \* ClipboardManager.last_toggle_time (ms)
    now,            \* time() (ms)
    previous_app,   \* ClipboardManager.previous_app
    acts            \* history: the last two calls of toggle_visibility

VARIABLES
    paste,          \* history: the last paste_selected / on_item_clicked
    deleted,        \* history: data deleted since the clipboard last changed
    sampled,        \* history: the snapshot the watcher sampled last
    shown,          \* history: the last show_clipboard
    config_file,    \* config.json
    loaded_config   \* the last result of load_config and the file it read

vars == <<items, max_items, pinned_file, list, clipboard, last_content,
          pending, sampleLog, emitLog, last,
          config, listeners, taps, main_pc, app, tap_ok, ax_ok, activated,
          watcher_pc, cb, visible, last_toggle_time, now, previous_app, acts,
          paste, deleted, sampled, shown, config_file, loaded_config>>

watcherVars == <<clipboard, last_content, pending, sampleLog, emitLog>>
storeVars == <<items, max_items, pinned_file, list, last>>
hotkeyVars == <<config, listeners, taps, main_pc, app, tap_ok, ax_ok,
                activated, watcher_pc, cb>>
toggleVars == <<visible, last_toggle_time, now, previous_app, acts>>
pasteVars == <<paste, deleted, sampled, shown>>
configVars == <<config_file, loaded_config>>

\* the clips the watcher can emit in the store specification
StoreClips ==
    { MakeClip(SampleItem(s), t) : s \in StoreSnapshots, t \in Times }
StoreData == { c.data : c \in StoreClips }

\* the clips of the scenario specification
ScenarioClips ==
    { MakeClip(SampleItem(s), "09:00") : s \in ScenarioSnapshots }
ScenarioData == { c.data : c \in ScenarioClips }

NoClip == [type |-> "", data |-> <<>>, time |-> ""]

\* the record kept in `last`: the operation, its argument, items before it,
\* whether it ran save_pinned; for a toggle_pin that directly follows a
\* toggle_pin of the same data (twice), items before the first of the two
\* (orig) and whether the first ran save_pinned (savedFirst)
OpRecord(op, clip, data, before, saved) ==
    [op |-> op, clip |-> clip, data |-> data, before |-> before,
     saved |-> saved, twice |-> FALSE, orig |-> <<>>, savedFirst |-> FALSE]

----------------------------------------------------------------------------
(* GlobalHotkeyListener: the chord and the callback *)

\* Quartz.kCGEventFlagMask* (CGEventTypes.h)
kCGEventFlagMaskCommand == 1048576
kCGEventFlagMaskAlternate == 524288
kCGEventFlagMaskControl == 262144
kCGEventFlagMaskShift == 131072

Modifiers == {"command", "option", "control", "shift"}

\* a & b and a | b on non-negative integers
RECURSIVE BitAnd(_, _)
BitAnd(a, b) ==
    IF a = 0 \/ b = 0 THEN 0
    ELSE 2 * BitAnd(a \div 2, b \div 2) + (a % 2) * (b % 2)

RECURSIVE BitOr(_, _)
BitOr(a, b) ==
    IF a = 0 THEN b
    ELSE IF b = 0 THEN a
    ELSE 2 * BitOr(a \div 2, b \div 2)
         + (IF a % 2 = 1 \/ b % 2 = 1 THEN 1 ELSE 0)

\* modifier_to_quartz, lines 100-106
modifier_to_quartz(modifier) ==
    CASE modifier = "command" -> kCGEventFlagMaskCommand
      [] modifier = "option" -> kCGEventFlagMaskAlternate
      [] modifier = "control" -> kCGEventFlagMaskControl
      [] modifier = "shift" -> kCGEventFlagMaskShift
      [] OTHER -> 0

\* key_map, lines 91-96 (the letters the model uses)
key_map == [C |-> 8, V |-> 9, X |-> 7]

\* self.key_map.get(key, 9), line 171
KeyCodeOf(key) == IF key \in DOMAIN key_map THEN key_map[key] ELSE 9

\* lines 172-174: the mask of a list of modifier names
RECURSIVE ModifiersMask(_)
ModifiersMask(mods) ==
    IF mods = <<>> THEN 0
    ELSE BitOr(ModifiersMask(SubSeq(mods, 1, Len(mods) - 1)),
               modifier_to_quartz(mods[Len(mods)]))

\* CGEventGetFlags: the flags of an event whose held modifiers are `held`
RECURSIVE FlagsOf(_)
FlagsOf(held) ==
    IF held = {} THEN 0
    ELSE LET m == CHOOSE x \in held : TRUE
         IN  modifier_to_quartz(m) + FlagsOf(held \ {m})

\* a key event as the tap sees it
KeyEvent(type, keycode, held) ==
    [type |-> type, keycode |-> keycode, flags |-> FlagsOf(held)]

\* variant of line 176 that wants the flags to be exactly the mask
ChordMatchesExactFlags(cfg, event) ==
    /\ event.type = "keyDown"
    /\ event.keycode = KeyCodeOf(cfg.key)
    /\ event.flags = ModifiersMask(cfg.modifiers)

\* lines 167-176: does the event fire the chord of cfg
ChordMatches(cfg, event) ==
    /\ event.type = "keyDown"
    /\ event.keycode = KeyCodeOf(cfg.key)
    /\ BitAnd(event.flags, ModifiersMask(cfg.modifiers))
          = ModifiersMask(cfg.modifiers)

\* the value of hotkey_callback that stands for `return None`
NoEvent == [type |-> "none", keycode |-> 0, flags |-> 0]

\* variant of lines 177-179 that passes the event on after emitting
CallbackReturnPassesOn(cfg, event) == event

\* lines 177-179: what hotkey_callback returns
CallbackReturn(cfg, event) ==
    IF ChordMatches(cfg, event) THEN NoEvent ELSE event

\* lines 177: how many `activated` events one call emits
CallbackEmits(cfg, event) == IF ChordMatches(cfg, event) THEN 1 ELSE 0

\* load_config defaults, lines 22-25
DefaultHotkey == [key |-> "V", modifiers |-> <<"command", "option">>]

\* the hotkey configurations of the chord specification
ChordConfigs ==
    { [key |-> k, modifiers |-> m] :
        k \in {"V", "C", "1"},
        m \in { <<>>, <<"command">>, <<"command", "option">>,
                <<"shift", "control">> } }

\* the hotkey configurations the preferences save in the listener
\* specification
HotkeyConfigs == { DefaultHotkey, [key |-> "C", modifiers |-> <<"control">>] }

\* the events of the chord specification
ChordEvents ==
    { KeyEvent(t, k, h) :
        t \in {"keyDown", "tapDisabledByTimeout"},
        k \in {KeyCodeOf("V"), KeyCodeOf("C")},
        h \in SUBSET Modifiers }

\* the events of the listener specification: the default chord, and the
\* same key with command only
HotkeyEvents ==
    { KeyEvent("keyDown", KeyCodeOf("V"), {"command", "option"}),
      KeyEvent("keyDown", KeyCodeOf("V"), {"command"}) }

----------------------------------------------------------------------------
(* GlobalHotkeyListener: the thread *)

\* line 137: the retry cap
MaxRetries == 10

\* GlobalHotkeyListener.__init__ and the locals of run, lines 88-98, 115;
\* history fields: attempts counts the CGEventTapCreate calls, failChecked
\* and failGranted describe the last failed attempt (did the permission
\* check run after it, was accessibility_granted set when it failed), retry
\* describes the last attempt that was a retry
NoRetry == [valid |-> FALSE, checked |-> FALSE, granted |-> FALSE]

NewListener(cfg) ==
    [pc |-> "start", running |-> TRUE, retry_count |-> 0,
     accessibility_granted |-> FALSE, config |-> cfg,
     attempts |-> 0, failChecked |-> FALSE, failGranted |-> FALSE,
     retry |-> NoRetry, stoppedAt |-> "none"]

\* a thread whose run() has returned
FinishedListener(l) ==
    [NewListener(l.config) EXCEPT !.pc = "finished", !.running = FALSE,
                                  !.stoppedAt = l.stoppedAt]

\* variant of line 141 that never checks
ShouldCheckNever(granted) == FALSE

\* line 141: is the permission checked after a failed attempt
ShouldCheck(granted) == ~granted

\* line 137: does the listener give up
GivesUp(retry_count) == retry_count > MaxRetries

\* QMessageBox.exec() on a thread that is not the GUI thread: the dialog is
\* shown and blocks until it is dismissed, or the process aborts
DialogOutcomes == {"shown", "abort"}

\* variant of QThread.wait() that returns at once
WaitReturnsAtOnce(l) == TRUE

\* QThread.wait(): returns when run() has returned
WaitReturns(l) == l.pc = "finished"

\* QThread.quit(): ends the event loop of a thread that runs exec(); run()
\* of ClipboardWatcher is a `while True` loop and runs no event loop
QThreadQuit(pc, runsEventLoop) == IF runsEventLoop THEN "finished" ELSE pc

\* the record kept in `cb`
NoCall == [valid |-> FALSE, listener |-> 0, event |-> NoEvent,
           returned |-> NoEvent, emitted |-> 0]

\* the frontmost application named by osascript; "" when the query fails
FrontApps == {"Safari", "Mac Clipper", ""}

\* line 549: the debounce window, in ms
DebounceMs == 200

\* variant of line 549 that never drops
TooFastNever(nw, ltt) == FALSE

\* line 549: is the activation dropped
TooFast(nw, ltt) == nw - ltt < DebounceMs

\* variant of line 552 that keeps the old value
AcceptedToggleTimeKept(nw, ltt) == ltt

\* line 552: last_toggle_time after an accepted activation
AcceptedToggleTime(nw, ltt) == nw

\* the step of the clock, in ms
TickMs == DebounceMs \div 2

\* time() when the process starts, in ms
StartMs == 5 * DebounceMs

----------------------------------------------------------------------------
(* config.json and load_config *)

\* a key of a JSON object that may be missing: <<>> when the key is missing,
\* <<v>> when it is there with value v
Absent == <<>>
Some(v) == <<v>>

\* a config dict: its four top-level keys, and the two keys of "hotkey"
ConfigDict(hotkey, maxItems, runAtLogin, theme) ==
    [hotkey |-> hotkey, max_items |-> maxItems, run_at_login |-> runAtLogin,
     theme |-> theme]

\* load_config, lines 21-29
default_config ==
    ConfigDict(Some([key |-> Some("V"),
                     modifiers |-> Some(<<"command", "option">>)]),
               Some("50"), Some("True"), Some("system"))

\* the dict with no key
EmptyDict == ConfigDict(Absent, Absent, Absent, Absent)

\* config.json: not there, not JSON, a JSON array, or a JSON object
ConfigFile(state, json) == [state |-> state, json |-> json]

\* the objects a config.json can hold: every key there or missing
ConfigObjects ==
    { ConfigDict(h, m, r, t) :
        h \in {Absent} \cup
              { Some([key |-> k, modifiers |-> ms]) :
                  k \in {Absent, Some("C")},
                  ms \in {Absent, Some(<<"control">>)} },
        m \in {Absent, Some("10")},
        r \in {Absent, Some("False")},
        t \in {Absent, Some("dark")} }

ConfigFiles ==
    { ConfigFile("missing", EmptyDict),
      ConfigFile("malformed", EmptyDict),
      ConfigFile("array", EmptyDict) }
    \cup { ConfigFile("object", o) : o \in ConfigObjects }

\* load_config, lines 20-36: the dict returned, or the exception that leaves
\* load_config, and the file that was read. Line 34 is
\* {**default_config, **config}, key by key of the top level
load_config(file) ==
    LET merged == [k \in DOMAIN default_config |->
                      IF file.json[k] # Absent THEN file.json[k]
                      ELSE default_config[k]]
    IN  CASE file.state = "object" ->
                 [raised |-> FALSE, value |-> merged, from |-> file]
          [] file.state = "array" ->
                 [raised |-> TRUE, value |-> EmptyDict, from |-> file]
          [] OTHER ->
                 [raised |-> FALSE, value |-> default_config, from |-> file]

----------------------------------------------------------------------------
(* ClipboardManager: construction and operations *)

\* ClipboardManager.__init__: load_pinned, then setup_ui runs update_list
InitStore ==
    /\ max_items \in 1..MaxItemsCap
    /\ pinned_file = MissingFile
    /\ items = LoadedItems(pinned_file)
    /\ list = ListRows(items)
    /\ clipboard = Snapshot(NullImage, <<>>)
    /\ last_content = <<>>
    /\ pending = <<>>
    /\ sampleLog = <<>>
    /\ emitLog = <<>>
    /\ last = OpRecord("init", NoClip, <<>>, <<>>, FALSE)

\* ClipboardManager.__init__, lines 240-254: the two threads are started;
\* __main__ has just seen check_accessibility() answer true
InitThreads(cfgs, tapStates) ==
    /\ config \in cfgs
    /\ listeners = <<NewListener(config)>>
    /\ taps = {}
    /\ main_pc = "idle"
    /\ app = "running"
    /\ tap_ok \in tapStates
    /\ ax_ok = TRUE
    /\ activated = 0
    /\ watcher_pc = "running"
    /\ cb = NoCall

\* ClipboardManager.__init__, lines 250, 261; the window starts hidden
InitWindow ==
    /\ visible = FALSE
    /\ last_toggle_time = 0
    /\ now = StartMs
    /\ previous_app = ""
    /\ acts = <<>>

\* no paste and no sample yet
InitPaste ==
    /\ paste = [valid |-> FALSE, data |-> <<>>, target |-> "",
                wrote |-> FALSE, after |-> Snapshot(NullImage, <<>>),
                activate |-> "none", keystroke |-> "none", hid |-> FALSE,
                warning |-> <<>>]
    /\ deleted = {}
    /\ sampled = [valid |-> FALSE, snap |-> Snapshot(NullImage, <<>>),
                  item |-> <<>>]
    /\ shown = [valid |-> FALSE, front |-> "", before |-> ""]

Init ==
    /\ InitStore /\ InitThreads({DefaultHotkey}, {TRUE}) /\ InitWindow
    /\ InitPaste
    /\ config_file = ConfigFile("missing", EmptyDict)
    /\ loaded_config = load_config(config_file)

\* handle_clipboard_change(clip): the slot of `changed`
handle_clipboard_change(clip) ==
    /\ items' = HandleResult(items, max_items, clip)
    /\ list' = IF IsIgnored(items, clip) THEN list ELSE ListRows(items')
    /\ last' = OpRecord("handle_clipboard_change", clip, clip.data, items, FALSE)
    /\ UNCHANGED <<max_items, pinned_file>>

\* toggle_pin(data)
toggle_pin(data) ==
    /\ items' = TogglePinResult(items, data)
    /\ pinned_file' = SavedFile(items')
    /\ list' = ListRows(items')
    /\ last' = LET twice == last.op = "toggle_pin" /\ last.data = data
               IN  [OpRecord("toggle_pin", NoClip, data, items, TRUE)
                      EXCEPT !.twice = twice,
                             !.orig = IF twice THEN last.before ELSE <<>>,
                             !.savedFirst = twice /\ last.saved]
    /\ UNCHANGED max_items

\* variant of delete_item that saves before it filters
delete_item_saves_first(data) ==
    /\ items' = DeleteResult(items, data)
    /\ pinned_file' = SavedFile(items)
    /\ list' = ListRows(items')
    /\ last' = OpRecord("delete_item", NoClip, data, items, TRUE)
    /\ UNCHANGED max_items

\* delete_item(data)
delete_item(data) ==
    /\ items' = DeleteResult(items, data)
    /\ pinned_file' = SavedFile(items')
    /\ list' = ListRows(items')
    /\ last' = OpRecord("delete_item", NoClip, data, items, TRUE)
    /\ UNCHANGED max_items

\* PreferencesWindow.save_prefs: save_config, apply_config, update_list
apply_config(n) ==
    /\ max_items' = n
    /\ list' = ListRows(items)
    /\ last' = OpRecord("apply_config", NoClip, <<>>, items, FALSE)
    /\ UNCHANGED <<items, pinned_file>>

\* the process exits and is started again: __init__ runs load_pinned
Restart ==
    /\ items' = LoadedItems(pinned_file)
    /\ list' = ListRows(items')
    /\ last' = OpRecord("restart", NoClip, <<>>, items, FALSE)
    /\ UNCHANGED <<max_items, pinned_file>>

----------------------------------------------------------------------------
(* The store specification: the slots of ClipboardManager, each `changed`
   event handled as it is emitted *)

Changed == \E clip \in StoreClips :
               handle_clipboard_change(clip)
               /\ UNCHANGED <<watcherVars, hotkeyVars, toggleVars, pasteVars, configVars>>
TogglePin == \E data \in StoreData :
                 toggle_pin(data)
                 /\ UNCHANGED <<watcherVars, hotkeyVars, toggleVars, pasteVars, configVars>>
DeleteItem == \E data \in StoreData :
                  delete_item(data)
                  /\ UNCHANGED <<watcherVars, hotkeyVars, toggleVars, pasteVars, configVars>>
ApplyConfig == \E n \in 1..MaxItemsCap :
                   apply_config(n)
                   /\ UNCHANGED <<watcherVars, hotkeyVars, toggleVars, pasteVars, configVars>>
RestartApp == Restart /\ UNCHANGED <<watcherVars, hotkeyVars, toggleVars, pasteVars, configVars>>

Next == Changed \/ TogglePin \/ DeleteItem \/ ApplyConfig \/ RestartApp

Spec == Init /\ [][Next]_vars

----------------------------------------------------------------------------
(* The scenario specification: the same slots over the texts "a" .. "e" *)

ScenarioChanged == \E clip \in ScenarioClips :
                       handle_clipboard_change(clip)
                       /\ UNCHANGED <<watcherVars, hotkeyVars, toggleVars, pasteVars, configVars>>
ScenarioTogglePin == \E data \in ScenarioData :
                         toggle_pin(data)
                         /\ UNCHANGED <<watcherVars, hotkeyVars, toggleVars, pasteVars, configVars>>

NextScenario == ScenarioChanged \/ ScenarioTogglePin \/ ApplyConfig

SpecScenario == Init /\ [][NextScenario]_vars

----------------------------------------------------------------------------
(* The watcher specification: the polling loop of ClipboardWatcher, the
   system clipboard changed by the user between samples, and the queued
   `changed` events handled by ClipboardManager *)

\* the user copies something: the system clipboard holds a new snapshot
SetClipboard ==
    /\ \E snap \in WatcherSnapshots : clipboard' = snap
    /\ UNCHANGED <<items, max_items, pinned_file, list, last_content,
                   pending, sampleLog, emitLog, last>>
    /\ UNCHANGED <<hotkeyVars, toggleVars, pasteVars, configVars>>

\* ClipboardWatcher.run: one iteration of the loop (one sample)
WatcherSample ==
    /\ Len(sampleLog) < MaxSamples
    /\ LET item == SampleItem(clipboard)
       IN  /\ sampleLog' = Append(sampleLog, item)
           /\ IF ShouldEmit(item, last_content)
              THEN /\ last_content' = item
                   /\ \E t \in Times :
                          /\ pending' = Append(pending, MakeClip(item, t))
                          /\ emitLog' = Append(emitLog, MakeClip(item, t))
              ELSE UNCHANGED <<last_content, pending, emitLog>>
           /\ sampled' = [valid |-> TRUE, snap |-> clipboard, item |-> item]
    /\ UNCHANGED <<items, max_items, pinned_file, list, clipboard, last>>
    /\ UNCHANGED <<paste, deleted, shown>>
    /\ UNCHANGED <<hotkeyVars, toggleVars, configVars>>

\* the event loop of the main thread delivers the oldest queued `changed`
Deliver ==
    /\ pending # <<>>
    /\ handle_clipboard_change(Head(pending))
    /\ pending' = Tail(pending)
    /\ UNCHANGED <<clipboard, last_content, sampleLog, emitLog>>
    /\ UNCHANGED <<hotkeyVars, toggleVars, pasteVars, configVars>>

NextWatcher == SetClipboard \/ WatcherSample \/ Deliver

SpecWatcher == Init /\ [][NextWatcher]_vars

----------------------------------------------------------------------------
(* GlobalHotkeyListener.run: the steps of listener g *)

Cur == Len(listeners)

\* check_accessibility, lines 66-84: the query answers, or it raises and
\* the function returns False without a dialog
CheckAnswers(trusted) == {IF trusted THEN "true" ELSE "false", "raised"}

\* the thread and, after an abort, the process
SetListener(g, l) == listeners' = [listeners EXCEPT ![g] = l]

\* a modal dialog opened by the listener thread: it blocks at pc, or the
\* process aborts
OpenDialog(g, l, pc) ==
    \E outcome \in DialogOutcomes :
        /\ SetListener(g, [l EXCEPT !.pc = pc])
        /\ app' = IF outcome = "abort" THEN "aborted" ELSE app

\* lines 117-144: one pass of the outer loop, from CGEventTapCreate to the
\* next point where the thread blocks
ListenerAttempt(g) ==
    LET l == listeners[g]
        a == [l EXCEPT !.attempts = @ + 1,
                       !.retry = IF l.attempts >= 1
                                 THEN [valid |-> TRUE,
                                       checked |-> l.failChecked,
                                       granted |-> l.failGranted]
                                 ELSE NoRetry]
        rc == l.retry_count + 1
    IN  /\ app = "running"
        /\ l.pc = "start"
        /\ l.running
        /\ IF tap_ok
           THEN /\ SetListener(g, [a EXCEPT !.pc = "installed",
                                            !.accessibility_granted = TRUE])
                /\ taps' = taps \cup {g}
                /\ UNCHANGED app
           ELSE /\ UNCHANGED taps
                /\ IF GivesUp(rc)
                   THEN OpenDialog(g, [a EXCEPT !.retry_count = rc],
                                   "error_dialog")
                   ELSE LET f == [a EXCEPT
                                   !.retry_count = rc,
                                   !.failGranted = l.accessibility_granted,
                                   !.failChecked =
                                       ShouldCheck(l.accessibility_granted)]
                        IN  IF ShouldCheck(l.accessibility_granted)
                            THEN \E answer \in CheckAnswers(ax_ok) :
                                   CASE answer = "true" ->
                                          OpenDialog(g,
                                            [f EXCEPT !.accessibility_granted = TRUE],
                                            "info_dialog")
                                     [] answer = "false" ->
                                          OpenDialog(g, f, "warn_dialog")
                                     [] OTHER ->
                                          /\ SetListener(g, [f EXCEPT !.pc = "sleep"])
                                          /\ UNCHANGED app
                            ELSE /\ SetListener(g, [f EXCEPT !.pc = "sleep"])
                                 /\ UNCHANGED app
        /\ UNCHANGED <<config, main_pc, tap_ok, ax_ok, activated,
                       watcher_pc, cb>>
        /\ UNCHANGED <<storeVars, watcherVars, toggleVars, pasteVars, configVars>>

\* line 144: self.sleep(10) returns
ListenerSleepDone(g) ==
    /\ app = "running"
    /\ listeners[g].pc = "sleep"
    /\ SetListener(g, [listeners[g] EXCEPT !.pc = "start"])
    /\ UNCHANGED <<config, taps, main_pc, app, tap_ok, ax_ok, activated,
                   watcher_pc, cb>>
    /\ UNCHANGED <<storeVars, watcherVars, toggleVars, pasteVars, configVars>>

\* lines 117, 132-134: `while self.running` is false, run() returns
ListenerReturn(g) ==
    /\ app = "running"
    /\ listeners[g].pc \in {"start", "installed"}
    /\ ~listeners[g].running
    /\ SetListener(g, FinishedListener(listeners[g]))
    /\ UNCHANGED <<config, taps, main_pc, app, tap_ok, ax_ok, activated,
                   watcher_pc, cb>>
    /\ UNCHANGED <<storeVars, watcherVars, toggleVars, pasteVars, configVars>>

\* the user closes the dialog: msg.exec() returns; after the error dialog
\* show_error_and_exit calls QApplication.quit() and run() returns
DismissDialog(g) ==
    /\ app = "running"
    /\ listeners[g].pc \in {"warn_dialog", "info_dialog", "error_dialog"}
    /\ IF listeners[g].pc = "error_dialog"
       THEN /\ SetListener(g, FinishedListener(listeners[g]))
            /\ app' = "quit"
       ELSE /\ SetListener(g, [listeners[g] EXCEPT !.pc = "sleep"])
            /\ UNCHANGED app
    /\ UNCHANGED <<config, taps, main_pc, tap_ok, ax_ok, activated,
                   watcher_pc, cb>>
    /\ UNCHANGED <<storeVars, watcherVars, toggleVars, pasteVars, configVars>>

\* the taps whose run loop is serviced, newest first (kCGHeadInsertEventTap)
ServicedTaps ==
    SelectSeq(Reverse([i \in 1..Len(listeners) |-> i]),
              LAMBDA g : g \in taps /\ listeners[g].pc = "installed")

\* one key event passes the taps in order; a tap that returns None ends it
RECURSIVE TapChain(_, _)
TapChain(gs, event) ==
    IF gs = <<>> THEN [emitted |-> 0, returned |-> event]
    ELSE LET cfg == listeners[Head(gs)].config
             r == CallbackReturn(cfg, event)
             e == CallbackEmits(cfg, event)
         IN  IF r = NoEvent
             THEN [emitted |-> e, returned |-> NoEvent]
             ELSE LET rest == TapChain(Tail(gs), r)
                  IN  [emitted |-> e + rest.emitted,
                       returned |-> rest.returned]

\* hotkey_callback, lines 166-179: a key event reaches the installed tap
hotkey_callback(event) ==
    LET res == TapChain(ServicedTaps, event)
    IN  /\ app = "running"
        /\ ServicedTaps # <<>>
        /\ activated + res.emitted <= MaxActivated
        /\ activated' = activated + res.emitted
        /\ cb' = [valid |-> TRUE, listener |-> Head(ServicedTaps),
                  event |-> event, returned |-> res.returned,
                  emitted |-> res.emitted]
        /\ UNCHANGED <<config, listeners, taps, main_pc, app, tap_ok, ax_ok,
                       watcher_pc>>
        /\ UNCHANGED <<storeVars, watcherVars, toggleVars, pasteVars, configVars>>

\* the permission is granted in System Settings: tap creation succeeds
GrantTap ==
    /\ app = "running"
    /\ ~tap_ok
    /\ tap_ok' = TRUE
    /\ UNCHANGED <<config, listeners, taps, main_pc, app, ax_ok, activated,
                   watcher_pc, cb>>
    /\ UNCHANGED <<storeVars, watcherVars, toggleVars, pasteVars, configVars>>

\* the answer of the accessibility query changes
SetAccessibility ==
    /\ app = "running"
    /\ ax_ok' = ~ax_ok
    /\ UNCHANGED <<config, listeners, taps, main_pc, app, tap_ok, activated,
                   watcher_pc, cb>>
    /\ UNCHANGED <<storeVars, watcherVars, toggleVars, pasteVars, configVars>>

\* run() never disables or releases its tap; the runtime drops it at some
\* time after the thread has ended
RuntimeReleasesTap(g) ==
    /\ app = "running"
    /\ g \in taps
    /\ listeners[g].pc = "finished"
    /\ taps' = taps \ {g}
    /\ UNCHANGED <<config, listeners, main_pc, app, tap_ok, ax_ok, activated,
                   watcher_pc, cb>>
    /\ UNCHANGED <<storeVars, watcherVars, toggleVars, pasteVars, configVars>>

----------------------------------------------------------------------------
(* ClipboardManager: the slots that answer and restart the listener *)

\* the record of one toggle_visibility call kept in `acts`
ActRecord(accepted, changed) ==
    LET c == acts[Len(acts)]
    IN  [time |-> now, accepted |-> accepted, changed |-> changed,
         prevCall |-> IF acts = <<>> THEN -1 ELSE c.time,
         prevAccepted |-> IF acts = <<>> THEN -1
                          ELSE IF c.accepted THEN c.time ELSE c.prevAccepted,
         prevChange |-> IF acts = <<>> THEN -1
                        ELSE IF c.changed THEN c.time ELSE c.prevChange]

LastTwo(s) == IF Len(s) > 2 THEN SubSeq(s, Len(s) - 1, Len(s)) ELSE s

\* lines 561-568: previous_app after the frontmost-application query
PreviousApp(front, prev) == front

\* the fields of ClipboardManager the two event slots read and write
Host == [items |-> items, max_items |-> max_items, visible |-> visible,
         last_toggle_time |-> last_toggle_time, previous_app |-> previous_app]

\* handle_clipboard_change, lines 286-298, on those fields
HostHandle(h, clip) ==
    [h EXCEPT !.items = HandleResult(h.items, h.max_items, clip)]

\* toggle_visibility, lines 546-558, and show_clipboard on those fields
HostToggle(h, nw, front) ==
    IF TooFast(nw, h.last_toggle_time) THEN h
    ELSE [h EXCEPT !.last_toggle_time = AcceptedToggleTime(nw, @),
                   !.visible = ~h.visible,
                   !.previous_app = IF h.visible THEN @
                                    ELSE PreviousApp(front, @)]

\* toggle_visibility, lines 546-558
toggle_visibility(front) ==
    LET h == HostToggle(Host, now, front)
        accepted == ~TooFast(now, last_toggle_time)
    IN  /\ visible' = h.visible
        /\ last_toggle_time' = h.last_toggle_time
        /\ previous_app' = h.previous_app
        /\ acts' = LastTwo(Append(acts,
                       ActRecord(accepted, h.visible # visible)))
        /\ shown' = IF accepted /\ ~visible
                    THEN [valid |-> TRUE, front |-> front,
                          before |-> previous_app]
                    ELSE shown

\* the event loop of the main thread delivers one queued `activated`
DeliverActivated(fronts) ==
    /\ app = "running"
    /\ main_pc = "idle"
    /\ activated > 0
    /\ activated' = activated - 1
    /\ \E front \in fronts : toggle_visibility(front)
    /\ now' = now
    /\ UNCHANGED <<config, listeners, taps, main_pc, app, tap_ok, ax_ok,
                   watcher_pc, cb>>
    /\ UNCHANGED <<paste, deleted, sampled>>
    /\ UNCHANGED <<storeVars, watcherVars, configVars>>

\* apply_config, lines 763-770: the configuration is reloaded, the listener
\* is told to stop and the main thread waits for it
apply_config_stop(n, cfg) ==
    /\ app = "running"
    /\ main_pc = "idle"
    /\ Len(listeners) < MaxListeners
    /\ apply_config(n)
    /\ config' = cfg
    /\ SetListener(Cur, [listeners[Cur] EXCEPT !.running = FALSE,
                                              !.stoppedAt = listeners[Cur].pc])
    /\ main_pc' = "apply_wait"
    /\ UNCHANGED <<taps, app, tap_ok, ax_ok, activated, watcher_pc, cb>>
    /\ UNCHANGED <<watcherVars, toggleVars, pasteVars, configVars>>

\* apply_config, lines 770-773: wait() returns, a new listener is started
apply_config_start ==
    /\ app = "running"
    /\ main_pc = "apply_wait"
    /\ WaitReturns(listeners[Cur])
    /\ listeners' = Append(listeners, NewListener(config))
    /\ main_pc' = "idle"
    /\ UNCHANGED <<config, taps, app, tap_ok, ax_ok, activated, watcher_pc,
                   cb>>
    /\ UNCHANGED <<storeVars, watcherVars, toggleVars, pasteVars, configVars>>

\* quit_app, lines 776-777: the listener is told to stop, the main thread
\* waits for it
quit_app_stop ==
    /\ app = "running"
    /\ main_pc = "idle"
    /\ SetListener(Cur, [listeners[Cur] EXCEPT !.running = FALSE])
    /\ main_pc' = "quit_wait"
    /\ UNCHANGED <<config, taps, app, tap_ok, ax_ok, activated, watcher_pc,
                   cb>>
    /\ UNCHANGED <<storeVars, watcherVars, toggleVars, pasteVars, configVars>>

\* quit_app, lines 777-779: wait() returns, watcher.quit(),
\* QApplication.quit()
quit_app_finish ==
    /\ app = "running"
    /\ main_pc = "quit_wait"
    /\ WaitReturns(listeners[Cur])
    /\ watcher_pc' = QThreadQuit(watcher_pc, FALSE)
    /\ app' = "quit"
    /\ main_pc' = "quit_done"
    /\ UNCHANGED <<config, listeners, taps, tap_ok, ax_ok, activated, cb>>
    /\ UNCHANGED <<storeVars, watcherVars, toggleVars, pasteVars, configVars>>

----------------------------------------------------------------------------
(* The listener specification: the listener thread, the permission, the
   key events, reconfiguration and quit *)

InitHotkey ==
    /\ InitStore
    /\ max_items = MaxItemsCap
    /\ InitThreads({DefaultHotkey}, BOOLEAN)
    /\ InitWindow
    /\ InitPaste
    /\ config_file = ConfigFile("missing", EmptyDict)
    /\ loaded_config = load_config(config_file)

Attempt == \E g \in 1..Len(listeners) : ListenerAttempt(g)
SleepDone == \E g \in 1..Len(listeners) : ListenerSleepDone(g)
Return == \E g \in 1..Len(listeners) : ListenerReturn(g)
Dismiss == \E g \in 1..Len(listeners) : DismissDialog(g)
ReleaseTap == \E g \in 1..Len(listeners) : RuntimeReleasesTap(g)
KeyPress == \E event \in HotkeyEvents : hotkey_callback(event)
Activated == DeliverActivated({"Safari"})
ApplyConfigStop == \E cfg \in HotkeyConfigs : apply_config_stop(max_items, cfg)

ListenerStep == Attempt \/ SleepDone \/ Return

NextHotkey ==
    \/ Attempt \/ SleepDone \/ Return \/ Dismiss \/ ReleaseTap
    \/ KeyPress \/ Activated \/ GrantTap \/ SetAccessibility
    \/ ApplyConfigStop \/ apply_config_start
    \/ quit_app_stop \/ quit_app_finish

SpecHotkey == InitHotkey /\ [][NextHotkey]_vars

\* the listener thread is scheduled; the user and the system are not obliged
\* to act
SpecHotkeyFair == SpecHotkey /\ WF_vars(ListenerStep)

----------------------------------------------------------------------------
(* The chord specification: every hotkey configuration against every key
   event, with the tap installed *)

InitChord ==
    /\ InitStore
    /\ max_items = MaxItemsCap
    /\ InitThreads(ChordConfigs, {TRUE})
    /\ InitWindow
    /\ InitPaste
    /\ config_file = ConfigFile("missing", EmptyDict)
    /\ loaded_config = load_config(config_file)

ChordKeyPress == \E event \in ChordEvents : hotkey_callback(event)

NextChord == Attempt \/ ChordKeyPress \/ Activated

SpecChord == InitChord /\ [][NextChord]_vars

----------------------------------------------------------------------------
(* The toggle specification: activations arriving as time passes *)

\* time passes
Tick ==
    /\ now < StartMs + MaxTicks * TickMs
    /\ now' = now + TickMs
    /\ UNCHANGED <<visible, last_toggle_time, previous_app, acts>>
    /\ UNCHANGED <<storeVars, watcherVars, hotkeyVars, pasteVars, configVars>>

\* an activation reaches toggle_visibility (from the listener or from the
\* QShortcut of setup_fallback_hotkey)
Activation ==
    /\ \E front \in FrontApps : toggle_visibility(front)
    /\ now' = now
    /\ UNCHANGED <<paste, deleted, sampled>>
    /\ UNCHANGED <<storeVars, watcherVars, hotkeyVars, configVars>>

NextToggle == Tick \/ Activation

SpecToggle == Init /\ [][NextToggle]_vars

----------------------------------------------------------------------------
(* ClipboardManager: copy and paste of an entry *)

\* base64.b64decode, line 534
b64decode(s) == IF s # <<>> /\ Head(s) = "b64" THEN Tail(s) ELSE <<>>

\* variant of copy_to_clipboard without the image branch
CopyResultTextOnly(clip, content) ==
    IF StartsWith(content, "text:")
    THEN Snapshot(NullImage, Tail(content))
    ELSE clip

\* copy_to_clipboard, lines 530-544: the system clipboard after the call
CopyResult(clip, content) ==
    IF StartsWith(content, "image:")
    THEN LET bytes == b64decode(Tail(content))
             \* QImage.loadFromData(bytes, "PNG"), line 536: the image, or
             \* the null image when the bytes are not a PNG
             image == IF Len(bytes) = 2 /\ bytes[1] = "PNG"
                      THEN bytes[2] ELSE NullImage
         IN  IF image # NullImage THEN Snapshot(image, <<>>) ELSE clip
    ELSE IF StartsWith(content, "text:")
         THEN Snapshot(NullImage, Tail(content))
         ELSE clip

\* variant of line 715 without the test for this application
CallsActivateWhenKnown(prev) == prev # ""

\* line 715: is the target application asked to activate
CallsActivate(prev) == prev # "" /\ prev # "Mac Clipper"

\* copy_to_clipboard(data) from "Copy" of the context menu on a row,
\* lines 690-691
copy_to_clipboard ==
  \E i \in 1..Len(list) :
    /\ list[i] # <<>>
    /\ clipboard' = CopyResult(clipboard, list[i])
    /\ deleted' = IF clipboard' # clipboard THEN {} ELSE deleted
    /\ UNCHANGED <<last_content, pending, sampleLog, emitLog>>
    /\ UNCHANGED <<paste, sampled, shown>>
    /\ UNCHANGED <<storeVars, hotkeyVars, toggleVars, configVars>>

\* on_item_clicked / paste_selected, lines 519-528: copy_to_clipboard, then
\* paste_to_frontmost_app (lines 713-732); activateOK and keystrokeOK say
\* whether the two osascript runs would succeed
on_item_clicked ==
  \E i \in 1..Len(list), activateOK \in BOOLEAN, keystrokeOK \in BOOLEAN :
    LET data == list[i] IN
    /\ visible
    /\ data # <<>>
    /\ clipboard' = CopyResult(clipboard, data)
    /\ deleted' = IF clipboard' # clipboard THEN {} ELSE deleted
    /\ LET activate == IF ~CallsActivate(previous_app) THEN "none"
                       ELSE IF activateOK THEN "ok" ELSE "failed"
           keystroke == IF activate = "failed" THEN "none"
                        ELSE IF keystrokeOK THEN "ok" ELSE "failed"
       IN  paste' = [valid |-> TRUE, data |-> data, target |-> previous_app,
                     wrote |-> TRUE, after |-> clipboard',
                     activate |-> activate, keystroke |-> keystroke,
                     hid |-> keystroke = "ok",
                     warning |-> IF activate = "failed" \/ keystroke = "failed"
                                 THEN <<previous_app>> ELSE <<>>]
    /\ visible' = IF paste'.hid THEN FALSE ELSE visible
    /\ UNCHANGED <<last_content, pending, sampleLog, emitLog>>
    /\ UNCHANGED <<sampled, shown>>
    /\ UNCHANGED <<last_toggle_time, now, previous_app, acts>>
    /\ UNCHANGED <<storeVars, hotkeyVars, configVars>>

----------------------------------------------------------------------------
(* The paste specification: entries arrive, the window is shown from the
   menu, an entry is clicked *)

PasteChanged == \E snap \in { Snapshot(NullImage, <<"a">>),
                               Snapshot("img1", <<>>) } :
                    handle_clipboard_change(MakeClip(SampleItem(snap), "09:00"))
                    /\ UNCHANGED <<watcherVars, hotkeyVars, toggleVars,
                                   pasteVars, configVars>>

\* show_clipboard, lines 560-574, called by "Show Clipboard" of the menu bar
\* (line 491); front is the answer of the frontmost-application query, ""
\* when it fails
show_clipboard ==
    /\ \E front \in FrontApps :
          /\ previous_app' = PreviousApp(front, previous_app)
          /\ visible' = TRUE
          /\ shown' = [valid |-> TRUE, front |-> front, before |-> previous_app]
    /\ UNCHANGED <<last_toggle_time, now, acts>>
    /\ UNCHANGED <<paste, deleted, sampled>>
    /\ UNCHANGED <<storeVars, watcherVars, hotkeyVars, configVars>>

InitPasteSpec ==
    /\ InitStore
    /\ max_items = MaxItemsCap
    /\ InitThreads({DefaultHotkey}, {TRUE})
    /\ InitWindow
    /\ InitPaste
    /\ config_file = ConfigFile("missing", EmptyDict)
    /\ loaded_config = load_config(config_file)

SpecPaste ==
    InitPasteSpec /\ [][PasteChanged \/ show_clipboard \/ on_item_clicked]_vars

----------------------------------------------------------------------------
(* The events specification: `changed` and `activated` events wait in the
   queue of the main thread and are handled one at a time *)

\* the watcher thread emits `changed`
EmitChanged ==
    /\ Len(pending) < MaxPending
    /\ \E t \in {<<"a">>, <<"b">>} :
          pending' = Append(pending,
                            MakeClip(SampleItem(Snapshot(NullImage, t)),
                                     "09:00"))
    /\ UNCHANGED <<clipboard, last_content, sampleLog, emitLog>>
    /\ UNCHANGED <<storeVars, hotkeyVars, toggleVars, pasteVars, configVars>>

\* the listener thread or the QShortcut emits `activated`
EmitActivated ==
    /\ activated < MaxActivated
    /\ activated' = activated + 1
    /\ UNCHANGED <<config, listeners, taps, main_pc, app, tap_ok, ax_ok,
                   watcher_pc, cb>>
    /\ UNCHANGED <<storeVars, watcherVars, toggleVars, pasteVars, configVars>>

SpecEvents ==
    InitPasteSpec
    /\ [][EmitChanged \/ EmitActivated \/ Deliver
           \/ DeliverActivated({"Safari", ""}) \/ Tick]_vars

----------------------------------------------------------------------------
(* The race specification: the watcher samples while the user copies,
   re-copies an entry from the context menu and deletes entries *)

\* the user copies something in another application
RaceSetClipboard ==
    /\ \E snap \in { Snapshot(NullImage, t) : t \in {<<"a">>, <<"b">>} } :
          /\ clipboard' = snap
          /\ deleted' = IF snap # clipboard THEN {} ELSE deleted
    /\ UNCHANGED <<last_content, pending, sampleLog, emitLog>>
    /\ UNCHANGED <<paste, sampled, shown>>
    /\ UNCHANGED <<storeVars, hotkeyVars, toggleVars, configVars>>

\* "Delete" of the context menu on a row; the claim is about deletions that
\* no waiting `changed` event can undo
RaceDelete ==
    \E i \in 1..Len(list) :
        /\ list[i] # <<>>
        /\ delete_item(list[i])
        /\ deleted' = IF \E j \in 1..Len(pending) : pending[j].data = list[i]
                      THEN deleted
                      ELSE deleted \cup {list[i]}
        /\ UNCHANGED <<paste, sampled, shown>>
        /\ UNCHANGED <<watcherVars, hotkeyVars, toggleVars, configVars>>

SpecRace ==
    InitPasteSpec
    /\ [][copy_to_clipboard \/ RaceDelete \/ RaceSetClipboard \/ WatcherSample
           \/ Deliver]_vars

----------------------------------------------------------------------------
(* The configuration specification: config.json written by save_prefs or
   from outside the application, and read by load_config *)

\* config.json is written from outside (an editor, an older version)
EditConfigFile ==
    /\ \E file \in ConfigFiles : config_file' = file
    /\ UNCHANGED loaded_config
    /\ UNCHANGED <<storeVars, watcherVars, hotkeyVars, toggleVars, pasteVars>>

\* save_prefs, lines 870-903: save_config replaces the file with a dict that
\* has every key (lines 887-895), apply_config reads it back with load_config
SavePrefs ==
    /\ \E cfg \in ConfigObjects \cup {default_config} :
          /\ cfg.hotkey # Absent /\ cfg.max_items # Absent
          /\ cfg.run_at_login # Absent /\ cfg.theme # Absent
          /\ cfg.hotkey[1].key # Absent /\ cfg.hotkey[1].modifiers # Absent
          /\ config_file' = ConfigFile("object", cfg)
    /\ loaded_config' = load_config(config_file')
    /\ UNCHANGED <<storeVars, watcherVars, hotkeyVars, toggleVars, pasteVars>>

\* the application is started: load_config reads the file
StartApp ==
    /\ loaded_config' = load_config(config_file)
    /\ UNCHANGED config_file
    /\ UNCHANGED <<storeVars, watcherVars, hotkeyVars, toggleVars, pasteVars>>

InitConfigSpec ==
    /\ InitStore
    /\ max_items = MaxItemsCap
    /\ InitThreads({DefaultHotkey}, {TRUE})
    /\ InitWindow
    /\ InitPaste
    /\ config_file \in ConfigFiles
    /\ loaded_config = load_config(config_file)

SpecConfig == InitConfigSpec /\ [][EditConfigFile \/ SavePrefs \/ StartApp]_vars

----------------------------------------------------------------------------
(* Properties *)

DataOf(its) == [i \in 1..Len(its) |-> its[i].data]
TextData(ch) == <<"text:", ch>>
Handled == last.op = "handle_clipboard_change"
Present(its, data) == data \in { its[i].data : i \in 1..Len(its) }

\* C1: in every reachable state, len(items) > max_items only if the number
\* of pinned entries is itself > max_items.
C1_CapOnlyExceededByPinned ==
    Len(items) > max_items => Len(PinnedOf(items)) > max_items

\* the expected emissions for a sequence of sample items: empty samples are
\* skipped, and a sample equal to the previous emission is skipped
RECURSIVE Collapse(_)
Collapse(samples) ==
    IF samples = <<>> THEN <<>>
    ELSE LET r == Collapse(SubSeq(samples, 1, Len(samples) - 1))
             x == samples[Len(samples)]
         IN  IF x = <<>> \/ (r # <<>> /\ r[Len(r)] = x) THEN r
             ELSE Append(r, x)

\* C2: no two consecutive `changed` events carry equal data; an empty sample
\* emits nothing and does not reset last_content, so the samples X, empty, X
\* emit X exactly once.
C2_WatcherDedup ==
    /\ \A i \in 1..(Len(emitLog) - 1) : emitLog[i].data # emitLog[i + 1].data
    /\ DataOf(emitLog) = Collapse(sampleLog)
    /\ \A i \in 1..Len(emitLog) : emitLog[i].data # <<>>
    /\ (/\ Len(sampleLog) = 3
        /\ sampleLog[1] # <<>>
        /\ sampleLog[2] = <<>>
        /\ sampleLog[3] = sampleLog[1])
       => DataOf(emitLog) = <<sampleLog[1]>>

C2_Witness ==
    /\ Len(sampleLog) >= 3
    /\ sampleLog[1] # <<>>
    /\ sampleLog[2] = <<>>
    /\ sampleLog[3] = sampleLog[1]
    /\ Len(emitLog) = 1

\* C3: handle_clipboard_change never removes or unpins a pinned entry: the
\* pinned entries before the call are the pinned entries after it, in the
\* same order.
C3_PinnedSurviveInsert ==
    Handled => PinnedOf(items) = PinnedOf(last.before)

\* an insertion that evicted while the oldest entry was pinned
C3_Witness ==
    /\ Handled
    /\ ~Present(last.before, last.data)
    /\ last.before # <<>>
    /\ GetPinned(last.before[Len(last.before)])
    /\ UnpinnedOf(last.before) # <<>>
    /\ Len(items) <= Len(last.before)

\* the tail-most unpinned entry of s
LastUnpinnedIndex(s) ==
    CHOOSE i \in 1..Len(s) :
        ~GetPinned(s[i]) /\ \A j \in (i + 1)..Len(s) : GetPinned(s[j])

\* remove the oldest unpinned entry until len = max or none is unpinned
RECURSIVE EvictOldest(_, _)
EvictOldest(s, max) ==
    IF Len(s) > max /\ \E i \in 1..Len(s) : ~GetPinned(s[i])
    THEN LET k == LastUnpinnedIndex(s)
         IN  EvictOldest(SubSeq(s, 1, k - 1) \o SubSeq(s, k + 1, Len(s)), max)
    ELSE s

\* C4: a clip whose data is new is prepended and then, while len(items) >
\* max_items, the oldest unpinned entry is removed until len(items) =
\* max_items or no unpinned entry remains; with max_items = 3, a,b,c then d
\* leaves [d,c,b], and with b pinned, e leaves pinned [b], unpinned [e,d].
C4_InsertEvictsOldestUnpinned ==
    (Handled /\ ~Present(last.before, last.data)) =>
        /\ items = EvictOldest(<<last.clip>> \o last.before, max_items)
        /\ (Len(items) > max_items => UnpinnedOf(items) = <<>>)
        /\ (/\ max_items = 3
            /\ DataOf(last.before) = <<TextData("c"), TextData("b"), TextData("a")>>
            /\ PinnedOf(last.before) = <<>>
            /\ last.data = TextData("d"))
           => DataOf(items) = <<TextData("d"), TextData("c"), TextData("b")>>
        /\ (/\ max_items = 3
            /\ DataOf(last.before) = <<TextData("d"), TextData("c"), TextData("b")>>
            /\ DataOf(PinnedOf(last.before)) = <<TextData("b")>>
            /\ last.data = TextData("e"))
           => /\ DataOf(PinnedOf(items)) = <<TextData("b")>>
              /\ DataOf(UnpinnedOf(items)) = <<TextData("e"), TextData("d")>>

C4_Witness ==
    /\ Handled
    /\ max_items = 3
    /\ DataOf(last.before) = <<TextData("d"), TextData("c"), TextData("b")>>
    /\ DataOf(PinnedOf(last.before)) = <<TextData("b")>>
    /\ last.data = TextData("e")
    /\ DataOf(items) = <<TextData("e"), TextData("d"), TextData("b")>>

\* C5: no two entries of items have equal data.
C5_NoDuplicateData ==
    \A i, j \in 1..Len(items) : items[i].data = items[j].data => i = j

\* a duplicate was offered to a history that came from the pinned file
C5_Witness ==
    /\ Handled
    /\ Present(last.before, last.data)
    /\ Len(items) >= 2
    /\ pinned_file.exists

\* C6: handle_clipboard_change with a clip whose data is already in items
\* (pinned or not, at any position) leaves items unchanged.
C6_DuplicateIsNoOp ==
    (Handled /\ Present(last.before, last.data)) => items = last.before

\* the duplicate is a pinned entry that is not at the head and has another
\* timestamp than the clip
C6_Witness ==
    /\ Handled
    /\ \E i \in 2..Len(last.before) :
          /\ last.before[i].data = last.data
          /\ GetPinned(last.before[i])
          /\ last.before[i].time # last.clip.time
    /\ items = last.before

\* C7: after every toggle_pin and delete_item the file holds exactly the
\* pinned entries of items in storage order, and in every state the file
\* equals the pinned subset of items.
C7_FileIsPinnedSubset ==
    /\ pinned_file.text = JsonDump(PinnedOf(items))
    /\ LoadedItems(pinned_file) = PinnedOf(items)
    /\ last.op \in {"toggle_pin", "delete_item"} =>
          pinned_file.exists /\ last.saved

\* a pinned entry was deleted while another pinned entry stays
C7_Witness ==
    /\ last.op = "delete_item"
    /\ \E i \in 1..Len(last.before) :
          last.before[i].data = last.data /\ GetPinned(last.before[i])
    /\ PinnedOf(items) # <<>>
    /\ UnpinnedOf(items) # <<>>

\* C8: after a restart, items is exactly the entries that were pinned before
\* it, all pinned, in the same order; no entry unpinned before is present.
C8_RestartKeepsPinnedOnly ==
    last.op = "restart" =>
        /\ items = PinnedOf(last.before)
        /\ \A i \in 1..Len(items) : GetPinned(items[i])
        /\ \A i \in 1..Len(last.before) :
              ~GetPinned(last.before[i]) => ~Present(items, last.before[i].data)

C8_Witness ==
    /\ last.op = "restart"
    /\ Len(items) >= 2
    /\ UnpinnedOf(last.before) # <<>>

\* C9: toggle_pin twice with the same data on an entry of the history
\* returns the entry to its original pinned state, leaves membership and
\* order unchanged, and runs save_pinned on both calls.
C9_DoubleToggleRestores ==
    (last.op = "toggle_pin" /\ last.twice /\ Present(last.orig, last.data)) =>
        /\ Len(items) = Len(last.orig)
        /\ \A i \in 1..Len(items) :
              /\ items[i].data = last.orig[i].data
              /\ items[i].time = last.orig[i].time
              /\ GetPinned(items[i]) = GetPinned(last.orig[i])
        /\ last.saved /\ last.savedFirst
        /\ pinned_file = SavedFile(items)

C9_Witness ==
    /\ last.op = "toggle_pin"
    /\ last.twice
    /\ Present(last.orig, last.data)
    /\ Len(items) >= 2
    /\ PinnedOf(items) # <<>>

\* the position of the entry with this data in items
IndexOfData(data) == CHOOSE i \in 1..Len(items) : items[i].data = data

----------------------------------------------------------------------------
(* Properties of the hotkey callback *)

\* the modifiers held in an event, read from its flags
HeldOf(flags) ==
    { m \in Modifiers : (flags \div modifier_to_quartz(m)) % 2 = 1 }

\* the modifiers a configuration names
ConfiguredModifiers(cfg) ==
    { cfg.modifiers[i] : i \in DOMAIN cfg.modifiers }

\* the chord of cfg as the claim words it
IsChord(cfg, event) ==
    /\ event.type = "keyDown"
    /\ event.keycode = KeyCodeOf(cfg.key)
    /\ ConfiguredModifiers(cfg) \subseteq HeldOf(event.flags)

\* the configuration of the listener whose tap took the last event
CallConfig == listeners[cb.listener].config

\* C11: hotkey_callback matches a key-down event iff its keycode is the
\* configured key's keycode and the held modifiers include every configured
\* modifier; {V, {command, option}} fires on {command, option} and on
\* {command, option, shift}, not on {command} alone.
C11_ChordMatchIsSuperset ==
    cb.valid =>
        /\ (cb.emitted >= 1) <=> IsChord(CallConfig, cb.event)
        /\ ( /\ CallConfig = DefaultHotkey
             /\ cb.event.type = "keyDown"
             /\ cb.event.keycode = 9 )
           => /\ HeldOf(cb.event.flags) = {"command", "option"}
                     => cb.emitted >= 1
              /\ HeldOf(cb.event.flags) = {"command", "option", "shift"}
                     => cb.emitted >= 1
              /\ HeldOf(cb.event.flags) = {"command"} => cb.emitted = 0

C11_Witness ==
    /\ cb.valid
    /\ CallConfig = DefaultHotkey
    /\ cb.event.type = "keyDown"
    /\ cb.event.keycode = 9
    /\ HeldOf(cb.event.flags) = {"command", "option", "shift"}
    /\ cb.emitted = 1

\* C12: with the tap installed, a key event that matches the chord emits
\* exactly one `activated` and the callback returns no event; an event that
\* does not match is returned as it came and emits nothing.
C12_MatchEmitsOnceAndSuppresses ==
    cb.valid =>
        IF IsChord(CallConfig, cb.event)
        THEN cb.emitted = 1 /\ cb.returned = NoEvent
        ELSE cb.emitted = 0 /\ cb.returned = cb.event

C12_Witness ==
    /\ cb.valid
    /\ listeners[cb.listener].pc = "installed"
    /\ IsChord(CallConfig, cb.event)
    /\ cb.returned = NoEvent
    /\ activated >= 1

----------------------------------------------------------------------------
(* Properties of the listener thread *)

ListenerIds == 1..Len(listeners)

\* C13: after 10 consecutive failed tap-install attempts the listener is
\* Failed: when the 10th attempt fails show_error_and_exit runs and no
\* further attempt is made.
C13_FailedAfterTenAttempts ==
    \A g \in ListenerIds :
        /\ listeners[g].retry_count >= 10
              => listeners[g].pc \in {"error_dialog", "finished"}
        /\ listeners[g].attempts <= 10

\* C14 as stated: the accessibility permission is re-checked before each
\* retry of the tap installation, for every retry.
C14_CheckedBeforeEveryRetry ==
    \A g \in ListenerIds :
        listeners[g].retry.valid => listeners[g].retry.checked

\* C14: the permission is re-checked before a retry exactly when
\* accessibility_granted was still False at the failure before it; once a
\* check or a successful install has set the flag, retries are made
\* unchecked.
C14_CheckedWhileNotGranted ==
    \A g \in ListenerIds :
        LET r == listeners[g].retry
        IN  r.valid =>
                /\ r.checked <=> ~r.granted
                /\ r.granted => listeners[g].accessibility_granted

C14_Witness ==
    \E g \in ListenerIds :
        /\ listeners[g].retry.valid
        /\ listeners[g].retry.checked
        /\ listeners[g].attempts >= 3
        /\ listeners[g].pc = "installed"

\* listener g is live: not stopped, not given up, its process running
Recovering(g) ==
    /\ g \in ListenerIds
    /\ app = "running"
    /\ tap_ok
    /\ listeners[g].running
    /\ listeners[g].pc \notin {"error_dialog", "finished"}

\* C15: once tap creation succeeds, a listener that is not stopped and has
\* not exhausted its retries reaches Installed with no user action, and an
\* Installed listener makes no further attempt and stays Installed until it
\* is stopped.
C15_RecoversWithoutUserAction ==
    /\ \A g \in 1..MaxListeners :
          Recovering(g) ~>
              \/ g \in ListenerIds /\ listeners[g].pc = "installed"
              \/ g \in ListenerIds /\ ~listeners[g].running
              \/ app # "running"
    /\ [][\A g \in ListenerIds :
             (listeners[g].pc = "installed" /\ listeners[g].running)
                => /\ listeners'[g].pc = "installed"
                   /\ listeners'[g].attempts = listeners[g].attempts]_vars

\* the listener threads that have not ended
LiveListeners == { g \in ListenerIds : listeners[g].pc # "finished" }

\* C18: apply_config waits for the old listener thread to end before it
\* starts the new one: every listener but the newest has ended, so no two
\* listener threads run at once, also when the old one was in its retry wait.
C18_OneListenerThread ==
    /\ Cardinality(LiveListeners) <= 1
    /\ \A g \in ListenerIds : g < Len(listeners) => listeners[g].pc = "finished"

C18_Witness ==
    /\ Len(listeners) = 2
    /\ listeners[1].stoppedAt = "sleep"
    /\ listeners[1].pc = "finished"
    /\ listeners[2].pc \in {"sleep", "installed"}

\* C19: a stopped listener's tap is torn down before the new tap is
\* installed: at most one tap exists at any time, and one key press gives at
\* most one activation.
C19_TapTornDownBeforeNewTap ==
    /\ Cardinality(taps) <= 1
    /\ cb.valid => cb.emitted <= 1

\* C20: when quit_app has asked for the process exit, the hotkey listener
\* thread and the clipboard watcher thread have both been stopped and have
\* ended.
C20_ThreadsJoinedBeforeQuit ==
    main_pc = "quit_done" =>
        /\ \A g \in ListenerIds : listeners[g].pc = "finished"
        /\ watcher_pc = "finished"

----------------------------------------------------------------------------
(* Properties of toggle_visibility *)

\* the last toggle_visibility call
LastAct == acts[Len(acts)]

\* C16 as stated: an activation arriving less than 200 ms after the
\* activation immediately before it, accepted or dropped, causes no change
\* of window visibility.
C16_DropsWithinDebounceOfPrevious ==
    (acts # <<>> /\ LastAct.prevCall # -1
                 /\ LastAct.time - LastAct.prevCall < 200)
        => ~LastAct.changed

\* C16: an activation arriving less than 200 ms after the last accepted
\* activation causes no change of window visibility.
C16_DropsWithinDebounceOfAccepted ==
    (acts # <<>> /\ LastAct.prevAccepted # -1
                 /\ LastAct.time - LastAct.prevAccepted < 200)
        => ~LastAct.changed /\ ~LastAct.accepted

C16_Witness ==
    /\ acts # <<>>
    /\ LastAct.prevAccepted # -1
    /\ LastAct.time - LastAct.prevAccepted = 100
    /\ ~LastAct.changed
    /\ visible

\* C17: two visibility changes made by toggle_visibility are at least 200 ms
\* apart; two activations 100 ms apart, with no activation in the 200 ms
\* before the first, toggle the window exactly once.
C17_ChangesAtLeastDebounceApart ==
    /\ (acts # <<>> /\ LastAct.changed /\ LastAct.prevChange # -1)
          => LastAct.time - LastAct.prevChange >= 200
    /\ ( /\ Len(acts) = 2
         /\ acts[2].time - acts[1].time = 100
         /\ acts[1].prevCall = -1 \/ acts[1].time - acts[1].prevCall >= 200 )
          => acts[1].changed /\ ~acts[2].changed

C17_Witness ==
    /\ Len(acts) = 2
    /\ acts[1].prevCall # -1
    /\ acts[1].time - acts[1].prevCall >= 200
    /\ acts[2].time - acts[1].time = 100
    /\ acts[1].changed
    /\ ~acts[2].changed

----------------------------------------------------------------------------
(* Properties of the full history, of the threads and of the events *)

AllPinned(its) == \A i \in 1..Len(its) : GetPinned(its[i])

\* C28: when every entry is pinned and len(items) >= max_items,
\* handle_clipboard_change with a new entry leaves items exactly as before the
\* call: the new entry is inserted and evicted at once, and is not retained.
C28_NewClipDroppedWhenAllPinned ==
    ( /\ Handled
      /\ last.data # <<>>
      /\ ~Present(last.before, last.data)
      /\ AllPinned(last.before)
      /\ Len(last.before) >= max_items )
        => items = last.before /\ ~Present(items, last.data)

C28_Witness ==
    /\ Handled
    /\ last.data # <<>>
    /\ ~Present(last.before, last.data)
    /\ AllPinned(last.before)
    /\ Len(last.before) = 2
    /\ max_items = 2
    /\ items = last.before

\* C23: the background threads reach the main thread only through `changed`
\* and `activated`: no listener thread is inside a dialog of its own, and the
\* process exit is asked for by the main thread only.
C23_BackgroundOnlyEmitsEvents ==
    /\ \A g \in ListenerIds :
          listeners[g].pc \notin {"warn_dialog", "info_dialog", "error_dialog"}
    /\ app = "quit" => main_pc = "quit_done"
    /\ app # "aborted"

\* C29: once `running` is False on a listener, its thread ends, from every
\* state it can be in, so wait() in apply_config and quit_app returns.
C29_StoppedListenerTerminates ==
    \A g \in 1..MaxListeners :
        (g \in ListenerIds /\ app = "running" /\ ~listeners[g].running)
            ~> \/ g \in ListenerIds /\ listeners[g].pc = "finished"
               \/ app # "running"

----------------------------------------------------------------------------
(* Properties of load_config *)

\* the two keys under "hotkey" of a dict, missing when "hotkey" is missing
HotkeyKeyOf(d) == IF d.hotkey = Absent THEN Absent ELSE d.hotkey[1].key
HotkeyModifiersOf(d) ==
    IF d.hotkey = Absent THEN Absent ELSE d.hotkey[1].modifiers

\* the value the claim gives a key: the persisted one, else the default
Merged(persisted, default) ==
    IF persisted # Absent THEN persisted ELSE default

\* C25: load_config returns, for a persisted configuration that misses any of
\* hotkey.key, hotkey.modifiers, max_items, run_at_login and theme, each
\* missing key at its default and each present key at its persisted value;
\* a missing or malformed file gives all defaults.
C25_MissingKeysGetDefaults ==
    LET f == loaded_config.from
        v == loaded_config.value
        d == default_config
    IN  /\ f.state \in {"missing", "malformed"}
              => ~loaded_config.raised /\ v = d
        /\ f.state = "object" =>
              /\ ~loaded_config.raised
              /\ HotkeyKeyOf(v) = Merged(HotkeyKeyOf(f.json), HotkeyKeyOf(d))
              /\ HotkeyModifiersOf(v) =
                     Merged(HotkeyModifiersOf(f.json), HotkeyModifiersOf(d))
              /\ v.max_items = Merged(f.json.max_items, d.max_items)
              /\ v.run_at_login = Merged(f.json.run_at_login, d.run_at_login)
              /\ v.theme = Merged(f.json.theme, d.theme)

----------------------------------------------------------------------------
(* Properties of the sample *)

\* text without its leading and trailing blanks
Trim(t) ==
    IF \A i \in 1..Len(t) : t[i] = " " THEN <<>>
    ELSE LET solid == { i \in 1..Len(t) : t[i] # " " }
             first == CHOOSE i \in solid : \A j \in solid : i <= j
             final == CHOOSE i \in solid : \A j \in solid : j <= i
         IN  SubSeq(t, first, final)

\* C26: a sample with a non-null bitmap gives an image entry, also when text
\* is there; else text that is non-empty after trimming gives a text entry
\* with the trimmed text; else nothing.  The kind prefix is part of the
\* payload, so a text entry and an image entry never compare equal.
C26_SampleNormalized ==
    /\ sampled.valid =>
          /\ sampled.snap.image # NullImage
                => sampled.item # <<>> /\ Head(sampled.item) = "image:"
          /\ (sampled.snap.image = NullImage /\ Trim(sampled.snap.text) # <<>>)
                => sampled.item = <<"text:">> \o Trim(sampled.snap.text)
          /\ (sampled.snap.image = NullImage /\ Trim(sampled.snap.text) = <<>>)
                => sampled.item = <<>>
    /\ \A i \in 1..Len(emitLog) :
          emitLog[i].type =
              (IF Head(emitLog[i].data) = "image:" THEN "image" ELSE "text")
    /\ \A i, j \in 1..Len(emitLog) :
          emitLog[i].type # emitLog[j].type
              => emitLog[i].data # emitLog[j].data

C26_Witness ==
    /\ sampled.valid
    /\ sampled.snap.image # NullImage
    /\ Trim(sampled.snap.text) # <<>>
    /\ Trim(sampled.snap.text) # sampled.snap.text
    /\ Head(sampled.item) = "image:"
    /\ \E i \in 1..Len(emitLog) : emitLog[i].data = sampled.item
    /\ \E i \in 1..Len(emitLog) : emitLog[i].type = "text"

----------------------------------------------------------------------------
(* Properties of the paste *)

\* the system clipboard holds the entry with this data
HoldsEntry(snap, data) ==
    IF Head(data) = "text:"
    THEN snap.image = NullImage /\ snap.text = Tail(data)
    ELSE /\ snap.image # NullImage
         /\ data = <<"image:", "b64", "PNG", snap.image>>

PasteFailed == paste.activate = "failed" \/ paste.keystroke = "failed"

\* C21: a paste writes the entry to the system clipboard first; when the
\* activation of the target or the paste keystroke then fails, a warning
\* that names the target application is shown and the clipboard still holds
\* the entry.
C21_PasteFailureKeepsClipboard ==
    paste.valid =>
        /\ paste.wrote
        /\ HoldsEntry(paste.after, paste.data)
        /\ PasteFailed <=> paste.warning = <<paste.target>>
        /\ ~PasteFailed <=> paste.warning = <<>>
        /\ PasteFailed => ~paste.hid

C21_Witness ==
    /\ paste.valid
    /\ paste.activate = "failed"
    /\ paste.warning = <<"Safari">>
    /\ Head(paste.data) = "image:"
    /\ HoldsEntry(clipboard, paste.data)
    /\ visible

\* C22: when show_clipboard cannot name the frontmost application,
\* previous_app becomes empty and an earlier target is not kept; the next
\* paste then makes no activation call while the clipboard write, the
\* keystroke and the hide still happen; the activation call is also skipped
\* when the target is this application.
C22_UnknownTargetSkipsActivation ==
    /\ shown.valid => previous_app = shown.front
    /\ paste.valid =>
          /\ paste.target \in {"", "Mac Clipper"} <=> paste.activate = "none"
          /\ paste.activate = "none" =>
                /\ paste.wrote
                /\ HoldsEntry(paste.after, paste.data)
                /\ paste.keystroke # "none"
                /\ paste.keystroke = "ok" <=> paste.hid

C22_Witness ==
    /\ shown.valid
    /\ shown.front = ""
    /\ shown.before = "Safari"
    /\ paste.valid
    /\ paste.target = ""
    /\ paste.activate = "none"
    /\ paste.keystroke = "ok"
    /\ paste.hid
    /\ ~visible

----------------------------------------------------------------------------
(* Properties of the event queue *)

\* C24: a waiting `changed` event and a waiting `activated` event can be
\* handled in either order with the same history, window visibility,
\* previous_app and last_toggle_time, and the same `changed` event handled
\* twice leaves what handling it once leaves.
C24_EventsCommuteAndRepeat ==
    /\ (pending # <<>> /\ activated > 0) =>
          \A front \in FrontApps :
              HostToggle(HostHandle(Host, Head(pending)), now, front)
                  = HostHandle(HostToggle(Host, now, front), Head(pending))
    /\ pending # <<>> =>
          HostHandle(HostHandle(Host, Head(pending)), Head(pending))
              = HostHandle(Host, Head(pending))
    /\ (Handled /\ pending # <<>> /\ Head(pending) = last.clip) =>
          HostHandle(Host, Head(pending)) = Host

\* the same event waits a second time after it was handled as a new entry
\* and after the window was toggled
C24_Witness ==
    /\ Handled
    /\ ~Present(last.before, last.data)
    /\ pending # <<>>
    /\ Head(pending) = last.clip
    /\ activated > 0
    /\ acts # <<>>
    /\ LastAct.accepted
    /\ visible
    /\ Len(items) = 2

----------------------------------------------------------------------------
(* Properties of deletion against the watcher *)

\* C27: after delete_item has removed an entry, no later sample of the
\* watcher puts it back into the history for as long as the system clipboard
\* does not change after the deletion, under every interleaving of the
\* samples with copy_to_clipboard and delete_item.
C27_DeletedEntryStaysDeleted ==
    \A data \in deleted : ~Present(items, data)

====
